---------------------------- MODULE Spec2Model ----------------------------
(***************************************************************************)
(* Closed-form integration of a one-dimensional piecewise-affine velocity  *)
(* field and its parameter derivative (cpab/backend/numpy/transformer.py). *)
(*                                                                         *)
(* Numbers are exact rationals <<n, d>> with d > 0 in lowest terms.  The   *)
(* bases enumerated here have zero rows for the slope coefficient a, so    *)
(* every np.where(a == 0, ., .) of the source selects its first branch;    *)
(* the second branch needs exp and log, which have no exact value.         *)
(***************************************************************************)
EXTENDS Integers, Sequences, FiniteSets, TLC

\* ------------------------------------------------------------ bounds
MaxNc == 3
MaxBatch == 2
MaxPoints == 2
MaxFlat == 4

\* ------------------------------------------------- rational numbers
RECURSIVE Gcd(_, _)
Gcd(a, b) == IF b = 0 THEN a ELSE Gcd(b, a % b)

Abs(n) == IF n < 0 THEN -n ELSE n

Q(n, d) ==
  LET s == IF d < 0 THEN -1 ELSE 1
      g == Gcd(Abs(n), Abs(d))
  IN  <<(s * n) \div g, (s * d) \div g>>

QInt(n) == <<n, 1>>
QAdd(p, q) == Q(p[1] * q[2] + q[1] * p[2], p[2] * q[2])
QSub(p, q) == Q(p[1] * q[2] - q[1] * p[2], p[2] * q[2])
QMul(p, q) == Q(p[1] * q[1], p[2] * q[2])
QDiv(p, q) == Q(p[1] * q[2], p[2] * q[1])
QLe(p, q) == p[1] * q[2] <= q[1] * p[2]
QLt(p, q) == p[1] * q[2] < q[1] * p[2]
QFloor(p) == p[1] \div p[2]
QZero == <<0, 1>>
QOne == <<1, 1>>

\* ------------------------------------------------------------ SETUP
\* eps of the source is the float32 machine epsilon.  The model works with a
\* coarser value; what the control flow needs of it is 0 < eps < cell width.
eps == <<1, 16>>

\* params.xmin, params.xmax: the domain of the scenarios of the specification.
xmin == <<0, 1>>
xmax == <<1, 1>>

\* ------------------------------------------------------ Cell Locator
right_boundary(c, nc) ==
  QAdd(QAdd(xmin, QDiv(QMul(QInt(c + 1), QSub(xmax, xmin)), QInt(nc))), eps)

left_boundary(c, nc) ==
  QSub(QAdd(xmin, QDiv(QMul(QInt(c), QSub(xmax, xmin)), QInt(nc))), eps)

clip(v, lo, hi) == IF v < lo THEN lo ELSE IF v > hi THEN hi ELSE v

QClip(v, lo, hi) == IF QLt(v, lo) THEN lo ELSE IF QLt(hi, v) THEN hi ELSE v

\* get_cell without the np.clip of line 53.
get_cell_unclipped(x, nc) ==
  QFloor(QMul(QDiv(QSub(x, xmin), QSub(xmax, xmin)), QInt(nc)))

get_cell(x, nc) ==
  clip(QFloor(QMul(QDiv(QSub(x, xmin), QSub(xmax, xmin)), QInt(nc))), 0, nc - 1)

\* ------------------------------------------------------------ inputs
\* Point templates x (positions, some outside [xmin, xmax]).
XSet == {<<-1, 1>>, <<1, 4>>, <<1, 2>>}

\* Rows of the parameter batch theta (d = 2 components each).
ThetaRows == {<<QInt(1), QInt(0)>>, <<QInt(0), QInt(1)>>, <<QInt(-1), QInt(2)>>}

\* The row a cache left over from an earlier call was resolved from.
StaleRow == <<QInt(-1), QInt(1)>>

\* params.B, shape (2 nc, d): row 2c gives a of cell c, row 2c + 1 gives b.
\* Component 0 is a uniform velocity 1, component 1 alternates +1/2, -1/2.
basis(nc) ==
  [row \in 1..(2 * nc) |->
     IF row % 2 = 1 THEN <<QZero, QZero>>
     ELSE <<QOne, IF (row \div 2) % 2 = 1 THEN <<1, 2>> ELSE <<-1, 2>>>>]

\* ------------------------------------------------------ array helpers
\* A numpy array holds computed values: the sequence with every entry evaluated.
array(f) == f \o <<>>

\* a[m] for a boolean mask m.
nth_true(m, q) ==
  CHOOSE i \in 1..Len(m) : m[i] /\ Cardinality({j \in 1..i : m[j]}) = q

compress(a, m) ==
  array([q \in 1..Cardinality({i \in 1..Len(m) : m[i]}) |-> a[nth_true(m, q)]])

\* buf[:len(vals)] = vals: the values written in the filtered order.
mask_assign_filtered_order(buf, m, vals) ==
  array([j \in 1..Len(buf) |-> IF j <= Len(vals) THEN vals[j] ELSE buf[j]])

\* buf[m] = vals for a boolean mask m.
mask_assign(buf, m, vals) ==
  LET rank(j) == Cardinality({i \in 1..j : m[i]})
  IN  array([j \in 1..Len(buf) |-> IF m[j] THEN vals[rank(j)] ELSE buf[j]])

logical_not(m) == array([i \in 1..Len(m) |-> ~m[i]])

alltrue(m) == \A i \in 1..Len(m) : m[i]

RECURSIVE dot(_, _, _)
dot(u, w, n) == IF n = 0 THEN QZero ELSE QAdd(dot(u, w, n - 1), QMul(u[n], w[n]))

\* ------------------------------------------------------ BATCH EFFECT
batch_effect(x, theta) ==
  LET n_batch == Len(theta)
      n_points == Len(x)
  IN  array([i \in 1..(n_batch * n_points) |-> x[((i - 1) % n_points) + 1]])

\* -------------------------------------------- Affine-Field Resolver
\* r holds batch rows 0 .. n_batch - 1; A[b + 1][c + 1] = <<a, b>> of cell c.
get_affine(x, theta, params) ==
  IF params.precomputed THEN <<params.A, params.r>>
  ELSE LET n_batch == Len(theta)
           n_points == Len(x)
           rep == n_points \div n_batch
           r == array([i \in 1..(n_batch * rep) |-> (i - 1) \div rep])
           A == array([b \in 1..n_batch |->
                   array([c \in 1..params.nc |->
                      <<dot(params.B[2 * c - 1], theta[b], Len(theta[b])),
                        dot(params.B[2 * c], theta[b], Len(theta[b]))>>])])
       IN  <<A, r>>

store_affine(params, Ar) ==
  [params EXCEPT !.A = Ar[1], !.r = Ar[2], !.precomputed = TRUE]

\* precompute_affine without line 36: a set cache is returned as it is.
precompute_affine_trusting_cache(x, theta, params) ==
  store_affine(params, get_affine(x, theta, params))

precompute_affine(x, theta, params) ==
  store_affine(params,
               get_affine(x, theta, [params EXCEPT !.precomputed = FALSE]))

\* A[r, c, 0] and A[r, c, 1] at active position i, c recomputed from x.
coef(x, theta, params, i) ==
  LET Ar == get_affine(x, theta, params)
  IN  Ar[1][Ar[2][i] + 1][get_cell(x[i], params.nc) + 1]

get_velocity(x, theta, params) ==
  array([i \in 1..Len(x) |->
     LET ab == coef(x, theta, params, i)
     IN  QAdd(QMul(ab[1], x[i]), ab[2])])

\* t is an array (the closed form) or a scalar broadcast (the numeric baseline).
get_psi(x, t, theta, params) ==
  array([i \in 1..Len(x) |->
     LET ab == coef(x, theta, params, i)
     IN  QAdd(x[i], QMul(t[i], ab[2]))])

hit_time_of(x, theta, params, v) ==
  array([i \in 1..Len(x) |->
     LET ab == coef(x, theta, params, i)
         c == get_cell(x[i], params.nc)
         xc == IF QLe(QZero, v[i]) THEN right_boundary(c, params.nc)
               ELSE left_boundary(c, params.nc)
     IN  QDiv(QSub(xc, x[i]), ab[2])])

get_hit_time(x, theta, params) ==
  hit_time_of(x, theta, params, get_velocity(x, theta, params))

\* ------------------------------------------------------------- state
VARIABLES
  nc,        \* params.nc of the caller's parameter object
  x_in,      \* the caller's point template, shape (n_points,)
  theta,     \* the caller's parameter batch, shape (n_batch, d)
  params,    \* the caller's parameter object (with its field cache)
  pc,        \* position of the driver: which call is running
  x, t, c,   \* active arrays of the running cell-hopping loop
  lparams,   \* the loop's own params (the copy precompute_affine returns)
  done,      \* done flags, original order
  phi,       \* integrate_closed_form: phi buffer
  result,    \* integrate_closed_form_trace: rows <<psi, t, c>>
  cont,      \* iteration counter of the running loop
  icf_out,   \* outcome of integrate_closed_form
  trace_out, \* outcome of integrate_closed_form_trace
  k, xm, cw, cum, der,  \* derivative_closed_form: component, walk state, result
  num_out,   \* outcome of integrate_numeric
  idx,       \* history: original flat index of each active point
  hoplog,    \* history: per original point, the hops of the running loop
  icf_log,   \* history: hoplog as integrate_closed_form left it
  walklog    \* history: per original point, the steps of the derivative walk

vars == <<nc, x_in, theta, params, pc, x, t, c, lparams, done, phi, result,
          cont, icf_out, trace_out, k, xm, cw, cum, der, num_out, idx,
          hoplog, icf_log, walklog>>

inputs == <<nc, x_in, theta, params>>
loopvars == <<x, t, c, lparams, done, cont, idx, hoplog>>
dervars == <<k, xm, cw, cum, der, walklog>>

Nil == "nil"

\* A call that has not ended: no status, no value.  A raised call has no value.
NoOutcome == [status |-> "none", value |-> <<>>]

n_batch == Len(theta)
n_points == Len(x_in)

\* A parameter object whose cache is unset.
fresh_params(n) ==
  [nc |-> n, B |-> basis(n), precomputed |-> FALSE, A |-> <<>>, r |-> <<>>,
   nSteps1 |-> 2, nSteps2 |-> 2]

\* A parameter object returned by precompute_affine for another theta and
\* another point batch of the same flattened length (one point per row).
stale_params(n, len) ==
  precompute_affine([i \in 1..len |-> QZero], [i \in 1..len |-> StaleRow],
                    fresh_params(n))

Init ==
  /\ nc \in 2..MaxNc
  /\ \E nb \in 1..MaxBatch, np \in 1..MaxPoints :
       /\ nb * np <= MaxFlat
       /\ x_in \in [1..np -> XSet]
       /\ theta \in [1..nb -> ThetaRows]
       /\ params \in {fresh_params(nc), stale_params(nc, nb * np)}
  /\ pc = "start"
  /\ x = <<>> /\ t = <<>> /\ c = <<>> /\ lparams = Nil
  /\ done = <<>> /\ phi = <<>> /\ result = <<>> /\ cont = 0
  /\ icf_out = NoOutcome /\ trace_out = NoOutcome
  /\ k = 0 /\ xm = <<>> /\ cw = <<>> /\ cum = <<>> /\ der = <<>>
  /\ num_out = <<>>
  /\ idx = <<>> /\ hoplog = <<>> /\ icf_log = <<>> /\ walklog = <<>>

\* ------------------------------------------------- cell-hopping loop
\* reshape((n_batch, -1)) of a flat array.
reshape(flat, nb) ==
  LET np == Len(flat) \div nb
  IN  array([b \in 1..nb |-> array([j \in 1..np |-> flat[(b - 1) * np + j]])])

\* The validity test without cond2 (the right edge of the domain).
is_valid_without_right_edge(left, right, v, psi, cc, n) ==
  \/ QLe(left, psi) /\ QLe(psi, right)
  \/ QLe(v, QZero) /\ cc = 0

\* Lines 141-149 (178-186): boundaries, velocity, flow and validity.
is_valid(left, right, v, psi, cc, n) ==
  \/ QLe(left, psi) /\ QLe(psi, right)
  \/ QLe(QZero, v) /\ cc = n - 1
  \/ QLe(v, QZero) /\ cc = 0

with_valid(left, right, v, psi, cc, n) ==
  [left |-> left, right |-> right, v |-> v, psi |-> psi,
   valid |-> array([i \in 1..Len(cc) |->
                      is_valid(left[i], right[i], v[i], psi[i], cc[i], n)])]

loop_values(xx, tt, cc, th, prm) ==
  with_valid(array([i \in 1..Len(cc) |-> left_boundary(cc[i], prm.nc)]),
             array([i \in 1..Len(cc) |-> right_boundary(cc[i], prm.nc)]),
             get_velocity(xx, th, prm),
             get_psi(xx, tt, th, prm),
             cc, prm.nc)

\* np.where(v >= 0, c + 1, c - 1)
step_cell(v, cc) == IF QLe(QZero, v) THEN cc + 1 ELSE cc - 1

\* cont > params.nc + 1: the cap one iteration late.
cap_exceeded_late(n, prm) == n > prm.nc + 1

\* cont > params.nc
cap_exceeded(n, prm) == n > prm.nc

\* Lines 156-159 (193-196): the active arrays after one hop.
\* t -= get_hit_time(x, theta, params), with x, t, params.r already sliced.
hop_time(t1, thit) == array([i \in 1..Len(t1) |-> QSub(t1[i], thit[i])])

hop_sliced(x1, t1, p1, thit, cc, L, nv) ==
  [x |-> compress(array([i \in 1..Len(cc) |->
                           QClip(L.psi[i], L.left[i], L.right[i])]), nv),
   t |-> hop_time(t1, thit),
   c |-> compress(array([i \in 1..Len(cc) |-> step_cell(L.v[i], cc[i])]), nv),
   params |-> p1,
   thit |-> thit]

hop_masked(xx, tt, cc, th, prm, L, nv, x1, p1) ==
  hop_sliced(x1, compress(tt, nv), p1, get_hit_time(x1, th, p1), cc, L, nv)

\* The hop without the re-slicing of params.r.
hop_keeping_r(xx, tt, cc, th, prm, L) ==
  hop_masked(xx, tt, cc, th, prm, L, logical_not(L.valid),
             compress(xx, logical_not(L.valid)), prm)

hop(xx, tt, cc, th, prm, L) ==
  hop_masked(xx, tt, cc, th, prm, L, logical_not(L.valid),
             compress(xx, logical_not(L.valid)),
             [prm EXCEPT !.r = compress(prm.r, logical_not(L.valid))])

\* History of one hop: the cell left, the position taken, the direction.
log_hops_sliced(log, jx, c0, v0, H) ==
      array([j \in 1..Len(log) |->
         IF \E q \in 1..Len(jx) : jx[q] = j
         THEN LET q == CHOOSE q \in 1..Len(jx) : jx[q] = j
              IN  Append(log[j], [cell |-> c0[q], pos |-> H.x[q],
                                  dir |-> IF QLe(QZero, v0[q]) THEN 1 ELSE -1,
                                  thit |-> H.thit[q], t |-> H.t[q],
                                  c |-> H.c[q]])
         ELSE log[j]])

log_hops(log, ix, cc, L, H) ==
  log_hops_sliced(log, compress(ix, logical_not(L.valid)),
                  compress(cc, logical_not(L.valid)),
                  compress(L.v, logical_not(L.valid)), H)

\* Lines 129-139 and 168-176: the setup the two integrators share.
loop_setup ==
  LET xf == batch_effect(x_in, theta)
  IN  /\ x' = xf
      /\ t' = [i \in 1..Len(xf) |-> QOne]
      /\ lparams' = precompute_affine(xf, theta, params)
      /\ done' = [i \in 1..Len(xf) |-> FALSE]
      /\ c' = [i \in 1..Len(xf) |-> get_cell(xf[i], params.nc)]
      /\ cont' = 0
      /\ idx' = [i \in 1..Len(xf) |-> i]
      /\ hoplog' = [i \in 1..Len(xf) |-> <<>>]

\* integrate_closed_form, lines 128-139.
integrate_closed_form_call ==
  /\ pc = "start"
  /\ loop_setup
  /\ phi' = [i \in 1..(n_batch * n_points) |-> Nil]
  /\ pc' = "icf"
  /\ UNCHANGED <<inputs, result, icf_out, trace_out, dervars, num_out, icf_log>>

\* integrate_closed_form, one iteration of the while loop (lines 140-163).
\* Lines 156-163 (193-200): the hop H and the iteration cap.
loop_hop(L, H) ==
  /\ x' = H.x /\ t' = H.t /\ c' = H.c /\ lparams' = H.params
  /\ cont' = cont + 1
  /\ idx' = compress(idx, logical_not(L.valid))
  /\ hoplog' = log_hops(hoplog, idx, c, L, H)

integrate_closed_form_body(L) ==
  /\ phi' = mask_assign(phi, logical_not(done), L.psi)
  /\ done' = mask_assign(done, logical_not(done), L.valid)
  /\ IF alltrue(L.valid)
     THEN /\ icf_out' = [status |-> "returned", value |-> reshape(phi', n_batch)]
          /\ pc' = "der"
          /\ UNCHANGED <<x, t, c, lparams, cont, idx, hoplog>>
     ELSE /\ loop_hop(L, hop(x, t, c, theta, lparams, L))
          /\ IF cap_exceeded(cont + 1, lparams)
             THEN /\ icf_out' = [status |-> "raised", value |-> <<>>]
                  /\ pc' = "der"
             ELSE /\ pc' = "icf"
                  /\ UNCHANGED icf_out

integrate_closed_form_iter ==
  /\ pc = "icf"
  /\ integrate_closed_form_body(loop_values(x, t, c, theta, lparams))
  /\ icf_log' = hoplog'
  /\ UNCHANGED <<inputs, result, trace_out, dervars, num_out>>

\* ------------------------------------------------- tracing variant
\* np.array([psi, 1 - t, c]).T: the elapsed time in place of the remaining one.
trace_rows_elapsed(psi, tt, cc) ==
  array([i \in 1..Len(psi) |-> <<psi[i], QSub(QOne, tt[i]), cc[i]>>])

\* np.array([psi, t, c]).T: one row per active point.
trace_rows(psi, tt, cc) == array([i \in 1..Len(psi) |-> <<psi[i], tt[i], cc[i]>>])

\* derivative_closed_form, lines 226-232, entering integrate_closed_form_trace
\* (lines 168-176).
derivative_closed_form_call ==
  /\ pc = "der"
  /\ loop_setup
  /\ result' = [i \in 1..(n_batch * n_points) |-> Nil]
  /\ pc' = "trace"
  /\ UNCHANGED <<inputs, phi, icf_out, trace_out, dervars, num_out, icf_log>>

integrate_closed_form_trace_body(L) ==
  /\ result' = mask_assign(result, logical_not(done), trace_rows(L.psi, t, c))
  /\ done' = mask_assign(done, logical_not(done), L.valid)
  /\ IF alltrue(L.valid)
     THEN /\ trace_out' = [status |-> "returned", value |-> result']
          /\ pc' = "dsetup"
          /\ UNCHANGED <<x, t, c, lparams, cont, idx, hoplog>>
     ELSE /\ loop_hop(L, hop(x, t, c, theta, lparams, L))
          /\ IF cap_exceeded(cont + 1, lparams)
             THEN /\ trace_out' = [status |-> "raised", value |-> <<>>]
                  /\ pc' = "num"
             ELSE /\ pc' = "trace"
                  /\ UNCHANGED trace_out

\* integrate_closed_form_trace, one iteration of the while loop (lines 177-200).
integrate_closed_form_trace_iter ==
  /\ pc = "trace"
  /\ integrate_closed_form_trace_body(loop_values(x, t, c, theta, lparams))
  /\ UNCHANGED <<inputs, phi, icf_out, dervars, num_out, icf_log>>

\* ------------------------------------------------------- DERIVATIVE
\* d = theta.shape[1]
d == Len(theta[1])

\* tm = result[:, 1] and cm = result[:, 2] of the returned trace.
tm == array([i \in 1..Len(trace_out.value) |-> trace_out.value[i][2]])
cm == array([i \in 1..Len(trace_out.value) |-> trace_out.value[i][3]])

sign(n) == IF n > 0 THEN 1 ELSE IF n < 0 THEN -1 ELSE 0

\* The boundary derivative_thit_theta differentiates the hit time to.
thit_boundary(xx, th, prm, i, v) ==
  IF QLe(QZero, v[i]) THEN right_boundary(get_cell(xx[i], prm.nc), prm.nc)
  ELSE left_boundary(get_cell(xx[i], prm.nc), prm.nc)

\* derivative_thit_theta at position i (lines 293-311, the a == 0 branch d1).
derivative_thit_theta(xx, th, kk, prm, i, v) ==
  LET ab == coef(xx, th, prm, i)
      cc == get_cell(xx[i], prm.nc)
      bk == prm.B[2 * cc + 2][kk + 1]
      xc == thit_boundary(xx, th, prm, i, v)
  IN  QDiv(QMul(QSub(xx[i], xc), bk), QMul(ab[2], ab[2]))

\* derivative_psi_theta at position i (lines 263-279, branch d1).
derivative_psi_theta(xx, tt, th, kk, prm, i) ==
  LET cc == get_cell(xx[i], prm.nc)
      ak == prm.B[2 * cc + 1][kk + 1]
      bk == prm.B[2 * cc + 2][kk + 1]
  IN  QMul(tt[i], QAdd(QMul(xx[i], ak), bk))

\* derivative_phi_time at position i (lines 281-291, branch d1).
derivative_phi_time(xx, tt, th, kk, prm, i) == coef(xx, th, prm, i)[2]

\* Lines 243-246: the start of the walk for one component.
walk_init(xf) ==
  /\ cum' = [i \in 1..Len(xf) |-> QZero]
  /\ xm' = xf
  /\ cw' = array([i \in 1..Len(xf) |-> get_cell(xf[i], nc)])
  /\ walklog' = [i \in 1..Len(xf) |-> <<>>]

\* derivative_closed_form, lines 233-246.
derivative_closed_form_setup ==
  /\ pc = "dsetup"
  /\ x' = batch_effect(x_in, theta)
  /\ lparams' = precompute_affine(x', theta, params)
  /\ der' = <<>>
  /\ k' = 0
  /\ walk_init(x')
  /\ pc' = "walk"
  /\ UNCHANGED <<inputs, t, c, done, phi, result, cont, icf_out, trace_out,
                 num_out, idx, hoplog, icf_log>>

\* valid = c == cm
walk_valid(cc, cmm) == array([i \in 1..Len(cc) |-> cc[i] = cmm[i]])

\* step = np.sign(cm - c)
walk_step(cc, cmm) == array([i \in 1..Len(cc) |-> sign(cmm[i] - cc[i])])

\* np.where(step == 1, right_boundary(c), left_boundary(c))
walk_boundary(step, cc, n) ==
  IF step = 1 THEN right_boundary(cc, n) ELSE left_boundary(cc, n)

walk_body(valid, step, v) ==
  /\ cum' = array([i \in 1..Len(cum) |->
                     IF valid[i] THEN cum[i]
                     ELSE QSub(cum[i],
                               derivative_thit_theta(xm, theta, k, lparams, i, v))])
  /\ xm' = array([i \in 1..Len(xm) |->
                    IF valid[i] THEN xm[i] ELSE walk_boundary(step[i], cw[i], nc)])
  /\ cw' = array([i \in 1..Len(cw) |-> cw[i] + step[i]])
  /\ walklog' = array([i \in 1..Len(walklog) |->
                  IF valid[i] THEN walklog[i]
                  ELSE Append(walklog[i],
                         [cell |-> cw[i], pos |-> xm'[i], dir |-> step[i],
                          dcell |-> get_cell(xm[i], nc),
                          dpos |-> thit_boundary(xm, theta, lparams, i, v),
                          ddir |-> IF QLe(QZero, v[i]) THEN 1 ELSE -1])])

\* derivative_closed_form, one iteration of the inner while loop (lines 247-254).
derivative_walk_iter ==
  /\ pc = "walk"
  /\ IF alltrue(walk_valid(cw, cm))
     THEN /\ pc' = "combine"
          /\ UNCHANGED <<cum, xm, cw, walklog>>
     ELSE /\ walk_body(walk_valid(cw, cm), walk_step(cw, cm),
                       get_velocity(xm, theta, lparams))
          /\ pc' = "walk"
  /\ UNCHANGED <<inputs, x, t, c, lparams, done, phi, result, cont, icf_out,
                 trace_out, k, der, num_out, idx, hoplog, icf_log>>

\* Lines 256-258: dphi_dtheta of component k, flat.
dphi_dtheta ==
  array([i \in 1..Len(xm) |->
     QAdd(derivative_psi_theta(xm, tm, theta, k, lparams, i),
          QMul(derivative_phi_time(xm, tm, theta, k, lparams, i), cum[i]))])

\* derivative_closed_form, lines 256-259, then the next component (lines
\* 242-246) or the return (line 261).
derivative_combine ==
  /\ pc = "combine"
  /\ der' = Append(der, reshape(dphi_dtheta, n_batch))
  /\ k' = k + 1
  /\ IF k + 1 < d
     THEN /\ walk_init(x)
          /\ pc' = "walk"
     ELSE /\ pc' = "num"
          /\ UNCHANGED <<cum, xm, cw, walklog>>
  /\ UNCHANGED <<inputs, x, t, c, lparams, done, phi, result, cont, icf_out,
                 trace_out, num_out, idx, hoplog, icf_log>>

\* ------------------------------------------------ numeric baseline
const(n, q) == array([i \in 1..n |-> q])

\* get_phi_numeric (lines 91-101): nSteps2 midpoint steps of size deltaT.  The
\* next iterate is bound as the single element of a set, which evaluates it once.
\* yn + h * v, elementwise.
advance(yn, h, v) == array([i \in 1..Len(yn) |-> QAdd(yn[i], QMul(h, v[i]))])

RECURSIVE phi_numeric_steps(_, _, _, _, _)
phi_numeric_steps(yn, deltaT, th, prm, j) ==
  IF j = 0 THEN yn
  ELSE CHOOSE out \in {phi_numeric_steps(y1, deltaT, th, prm, j - 1) : y1 \in
         {advance(yn, deltaT,
                  get_velocity(advance(yn, QDiv(deltaT, QInt(2)),
                                       get_velocity(yn, th, prm)), th, prm))}} :
         TRUE

get_phi_numeric(xx, tt, th, prm) ==
  phi_numeric_steps(xx, QDiv(tt, QInt(prm.nSteps2)), th, prm, prm.nSteps2)

\* Lines 119-124 of integrate_numeric: nSteps1 outer steps.
\* np.where(c == cTemp, xTemp, xNum), c being get_cell(xPrev).
numeric_select(xPrev, xTemp, xNum, n) ==
  array([i \in 1..Len(xPrev) |->
     IF get_cell(xPrev[i], n) = get_cell(xTemp[i], n) THEN xTemp[i] ELSE xNum[i]])

RECURSIVE numeric_steps(_, _, _, _, _)
numeric_steps(xPrev, deltaT, th, prm, j) ==
  IF j = 0 THEN xPrev
  ELSE CHOOSE out \in {numeric_steps(x1, deltaT, th, prm, j - 1) : x1 \in
         {numeric_select(xPrev,
                         get_psi(xPrev, const(Len(xPrev), deltaT), th, prm),
                         get_phi_numeric(xPrev, deltaT, th, prm), prm.nc)}} :
         TRUE

numeric_run(xf, th, p1) ==
  reshape(numeric_steps(xf, QDiv(QOne, QInt(p1.nSteps1)), th, p1, p1.nSteps1),
          Len(th))

numeric_flat(xf, th, prm) == numeric_run(xf, th, precompute_affine(xf, th, prm))

integrate_numeric(xx, th, prm) == numeric_flat(batch_effect(xx, th), th, prm)

\* A call of integrate_numeric (lines 107-125).
integrate_numeric_call ==
  /\ pc = "num"
  /\ num_out' = integrate_numeric(x_in, theta, params)
  /\ pc' = "end"
  /\ UNCHANGED <<inputs, loopvars, phi, result, icf_out, trace_out, dervars,
                 icf_log>>

Next ==
  \/ integrate_closed_form_call
  \/ integrate_closed_form_iter
  \/ derivative_closed_form_call
  \/ integrate_closed_form_trace_iter
  \/ derivative_closed_form_setup
  \/ derivative_walk_iter
  \/ derivative_combine
  \/ integrate_numeric_call

Spec == Init /\ [][Next]_vars

\* ----------------------------------------- Cell Locator on its own
\* Positions around every cell edge of an n-cell partition, in steps of eps / 4.
CellPoints(n) ==
  {QAdd(QAdd(xmin, QDiv(QMul(QInt(j), QSub(xmax, xmin)), QInt(n))),
        QMul(QInt(s), QDiv(eps, QInt(4)))) : j \in 0..n, s \in -4..4}

InitCell ==
  /\ nc \in 1..MaxNc
  /\ \E q \in CellPoints(nc) : x = <<q>>
  /\ pc = "cell"
  /\ x_in = <<>> /\ theta = <<>> /\ params = fresh_params(nc)
  /\ t = <<>> /\ c = <<>> /\ lparams = Nil
  /\ done = <<>> /\ phi = <<>> /\ result = <<>> /\ cont = 0
  /\ icf_out = NoOutcome /\ trace_out = NoOutcome
  /\ k = 0 /\ xm = <<>> /\ cw = <<>> /\ cum = <<>> /\ der = <<>>
  /\ num_out = <<>>
  /\ idx = <<>> /\ hoplog = <<>> /\ icf_log = <<>> /\ walklog = <<>>

\* get_cell applied to the position.
locate ==
  /\ pc = "cell"
  /\ c' = <<get_cell(x[1], nc)>>
  /\ pc' = "located"
  /\ UNCHANGED <<inputs, x, t, lparams, done, phi, result, cont, icf_out,
                 trace_out, dervars, num_out, idx, hoplog, icf_log>>

NextCell == locate

SpecCell == InitCell /\ [][NextCell]_vars

\* ------------------------------------- one point followed on its own
\* The cell-hopping loop read for a single point s = [x, t, c] under one row of
\* theta: the same formulas, no batch, no slicing.
point_b(px, row, n) == dot(basis(n)[2 * get_cell(px, n) + 2], row, Len(row))

point_a(px, row, n) == dot(basis(n)[2 * get_cell(px, n) + 1], row, Len(row))

point_velocity(px, row, n) ==
  QAdd(QMul(point_a(px, row, n), px), point_b(px, row, n))

point_psi(s, row, n) == QAdd(s.x, QMul(s.t, point_b(s.x, row, n)))

point_valid(s, row, n) ==
  is_valid(left_boundary(s.c, n), right_boundary(s.c, n),
           point_velocity(s.x, row, n), point_psi(s, row, n), s.c, n)

point_thit(s, row, n) ==
  QDiv(QSub(IF QLe(QZero, point_velocity(s.x, row, n))
            THEN right_boundary(get_cell(s.x, n), n)
            ELSE left_boundary(get_cell(s.x, n), n), s.x),
       point_b(s.x, row, n))

point_hop(s, row, n) ==
  [x |-> QClip(point_psi(s, row, n), left_boundary(s.c, n), right_boundary(s.c, n)),
   t |-> QSub(s.t, point_thit(s, row, n)),
   c |-> step_cell(point_velocity(s.x, row, n), s.c)]

point_start(px, n) == [x |-> px, t |-> QOne, c |-> get_cell(px, n)]

\* The point after h hops.
RECURSIVE point_after(_, _, _, _)
point_after(s, row, n, h) ==
  IF h = 0 THEN s
  ELSE CHOOSE out \in {point_after(s1, row, n, h - 1) :
                       s1 \in {point_hop(s, row, n)}} : TRUE

\* <<psi, t, c>> of the iteration that finalizes the point, within fuel hops.
RECURSIVE point_final(_, _, _, _)
point_final(s, row, n, fuel) ==
  IF point_valid(s, row, n) THEN <<point_psi(s, row, n), s.t, s.c>>
  ELSE IF fuel = 0 THEN <<>>
  ELSE CHOOSE out \in {point_final(s1, row, n, fuel - 1) :
                       s1 \in {point_hop(s, row, n)}} : TRUE

\* The batch row and the template position of flat index j.
row_of(j) == theta[((j - 1) \div n_points) + 1]
x0_of(j) == x_in[((j - 1) % n_points) + 1]
final_from(px, row) ==
  CHOOSE out \in {point_final(s0, row, nc, nc + 1) :
                  s0 \in {point_start(px, nc)}} : TRUE
final_of(j) == final_from(x0_of(j), row_of(j))
after_of(j, h) ==
  CHOOSE out \in {point_after(s0, row_of(j), nc, h) :
                  s0 \in {point_start(x0_of(j), nc)}} : TRUE
Flat == 1..(n_batch * n_points)
in_loop == pc \in {"icf", "trace"}

\* No division by zero: every position, remaining time and accumulator the
\* program holds is a finite number (a == 0 first branches divide by b only).
NoInf ==
  /\ \A i \in 1..Len(x) : x[i][2] > 0
  /\ \A i \in 1..Len(t) : t[i][2] > 0
  /\ \A i \in 1..Len(cum) : cum[i][2] > 0

\* --------------------------------------------------------------- C1
\* C1: the cell-hopping loop of either integrator never runs on once the counter
\* has passed nc: a call that has not finalized every point within nc + 1
\* iterations ends raised, with no positions; a call that returns has hopped
\* no point more than nc times.
C1_LoopIsCapped ==
  /\ cont <= nc + 1
  /\ in_loop => cont <= nc
  /\ icf_out.status = "raised" =>
       /\ icf_out.value = <<>>
       /\ \E j \in Flat : Len(icf_log[j]) = nc + 1
  /\ icf_out.status = "returned" =>
       \A j \in Flat : Len(icf_log[j]) <= nc
  /\ trace_out.status = "raised" =>
       /\ trace_out.value = <<>>
       /\ cont = nc + 1
       /\ \E j \in Flat : Len(hoplog[j]) = nc + 1
  /\ trace_out.status = "returned" =>
       \A j \in Flat : Len(hoplog[j]) <= nc

\* A field that bounces a point across one boundary ends the call raised.
C1_Witness ==
  /\ icf_out.status = "raised"
  /\ \E j \in Flat : /\ Len(icf_log[j]) = nc + 1
                     /\ icf_log[j][1].dir # icf_log[j][2].dir

\* --------------------------------------------------------------- C2
\* C2: every finalized entry of phi, and every entry of the array
\* integrate_closed_form returns, is the psi of the iteration that finalized
\* the trajectory of that batch row and point index.  (The returned array is
\* looked at in the state of the return; nothing writes icf_out afterwards.)
C2_ResultOrder ==
  /\ pc = "icf" =>
       \A j \in Flat : done[j] => phi[j] = final_of(j)[1]
  /\ (pc = "der" /\ icf_out.status = "returned") =>
       \A b \in 1..n_batch : \A j \in 1..n_points :
          icf_out.value[b][j] = final_from(x_in[j], theta[b])[1]

\* Two rows, the point of the first row finalized after that of the second.
C2_Witness ==
  /\ icf_out.status = "returned"
  /\ n_batch = 2 /\ n_points = 2
  /\ Len(icf_log[1]) > Len(icf_log[3])
  /\ Len(icf_log[2]) < Len(icf_log[1])
  /\ icf_out.value[1][1] # icf_out.value[2][1]

\* --------------------------------------------------------------- C3
last_t(log) == IF log = <<>> THEN QOne ELSE log[Len(log)].t

last_c(log, px) == IF log = <<>> THEN get_cell(px, nc) ELSE log[Len(log)].c

\* C3: the tracing integrator ends as integrate_closed_form did on the same
\* input, after the same hops; column 0 of its trace is the returned phi,
\* columns 1 and 2 are the t and c the point held when it was finalized.
\* (Looked at where the tracing call ends, and again where the derivative ends.)
C3_TraceAgrees ==
  (pc \in {"dsetup", "num"} /\ trace_out.status # "none") =>
    /\ trace_out.status = icf_out.status
    /\ hoplog = icf_log
    /\ trace_out.status = "returned" =>
         \A j \in Flat :
            /\ trace_out.value[j][1]
                 = icf_out.value[((j - 1) \div n_points) + 1][((j - 1) % n_points) + 1]
            /\ trace_out.value[j][2] = last_t(hoplog[j])
            /\ trace_out.value[j][3] = last_c(hoplog[j], x0_of(j))
            /\ trace_out.value[j] = final_of(j)

C3_Witness ==
  /\ trace_out.status = "returned"
  /\ \E j \in Flat : Len(hoplog[j]) >= 2
  /\ \E j \in Flat : Len(hoplog[j]) = 0

\* --------------------------------------------------------------- C4
\* xmin = 0, xmax = 1, nc = 2, one row, one point x = 0.5, velocity 1 in every cell.
C4_Scenario ==
  /\ nc = 2 /\ n_batch = 1 /\ n_points = 1
  /\ x_in = <<(<<1, 2>>)>>
  /\ theta = <<(<<QInt(1), QInt(0)>>)>>

\* C4 as stated: phi = 1.5 and the trace shows exactly one hit-time event, with
\* t_hit = right_boundary(1) - 0.5.
C4_AsStated ==
  (C4_Scenario /\ trace_out.status # "none") =>
    /\ trace_out.status = "returned"
    /\ trace_out.value[1][1] = <<3, 2>>
    /\ Len(hoplog[1]) = 1
    /\ hoplog[1][1].thit = QSub(right_boundary(1, 2), <<1, 2>>)

\* C4 as the code has it: phi = 1.5 (unclamped), and the point is finalized in
\* the first iteration by the edge rule, with no hit-time event: the trace row
\* is (1.5, 1, 1).
C4_EdgeFinalizesAtOnce ==
  /\ (C4_Scenario /\ icf_out.status # "none") =>
       /\ icf_out.status = "returned"
       /\ icf_out.value = <<(<<(<<3, 2>>)>>)>>
       /\ icf_log[1] = <<>>
  /\ (C4_Scenario /\ trace_out.status # "none") =>
       /\ trace_out.status = "returned"
       /\ trace_out.value[1] = <<(<<3, 2>>), QOne, 1>>
       /\ hoplog[1] = <<>>

C4_Witness == C4_Scenario /\ trace_out.status = "returned" /\ pc = "end"

\* --------------------------------------------------------------- C5
in_domain(q) == QLe(xmin, q) /\ QLe(q, xmax)

\* C5: for x in [xmin, xmax], get_cell(x) is in [0, nc - 1] and x lies between
\* the widened boundaries of that cell.
C5_CellBoundaryAgreement ==
  (pc = "located" /\ in_domain(x[1])) =>
    /\ c[1] \in 0..(nc - 1)
    /\ QLe(left_boundary(c[1], nc), x[1])
    /\ QLe(x[1], right_boundary(c[1], nc))

\* x = xmax, which the clamp puts in the last cell.
C5_Witness == pc = "located" /\ x[1] = xmax /\ nc > 1 /\ c[1] = nc - 1

\* --------------------------------------------------------------- C6
fresh_field == get_affine(batch_effect(x_in, theta), theta, fresh_params(nc))

\* C6: whatever cache the caller's params carries, the field every call works
\* with is the one resolved from this call's theta and point batch.
C6_CacheNeverStale ==
  /\ pc \in {"icf", "trace", "walk", "combine"} =>
       \A ff \in {fresh_field} :
          /\ lparams.precomputed
          /\ lparams.A = ff[1]
          /\ Len(lparams.r) = Len(x)
          /\ \A i \in 1..Len(x) :
               lparams.r[i] = ff[2][IF in_loop THEN idx[i] ELSE i]
  /\ pc = "end" => num_out = integrate_numeric(x_in, theta, fresh_params(nc))

C6_Witness ==
  /\ pc = "end"
  /\ params.precomputed
  /\ params.A # fresh_field[1]
  /\ params.r # fresh_field[2]
  /\ icf_out.status = "returned" /\ trace_out.status = "returned"

\* --------------------------------------------------------------- C7
not_done == {j \in Flat : ~done[j]}

\* C7: at the start of every iteration x, t, c and params.r have the length of
\* the not-yet-finalized set, and position i of each belongs to the i-th
\* not-yet-finalized original point: r[i] is its batch row, and x[i], t[i],
\* c[i] are that point's own state after cont hops.
C7_Lockstep ==
  in_loop =>
    /\ Len(x) = Cardinality(not_done)
    /\ Len(t) = Len(x) /\ Len(c) = Len(x) /\ Len(lparams.r) = Len(x)
    /\ Len(idx) = Len(x)
    /\ \A i \in 1..Len(x) :
         /\ idx[i] \in not_done
         /\ Cardinality({j \in not_done : j <= idx[i]}) = i
         /\ lparams.r[i] = (idx[i] - 1) \div n_points
         /\ [x |-> x[i], t |-> t[i], c |-> c[i]]
              = after_of(idx[i], cont)

\* The active set has shrunk to points of the second row only, or to a gap.
C7_Witness ==
  /\ in_loop /\ cont >= 1
  /\ n_batch = 2 /\ n_points = 2
  /\ Len(x) \in {1, 2}
  /\ idx[1] > 1
  /\ lparams.r[1] = 1

\* --------------------------------------------------------------- C8
\* C8: every hop puts x on the boundary in the direction of travel and moves c by
\* one accordingly, and at the start of every iteration the tracked c of every
\* active point is in [0, nc - 1] and equals get_cell(x).
C8_TrackedCellIsGetCell ==
  in_loop =>
    /\ \A i \in 1..Len(x) : c[i] \in 0..(nc - 1) /\ c[i] = get_cell(x[i], nc)
    /\ \A j \in Flat : \A h \in 1..Len(hoplog[j]) :
         LET e == hoplog[j][h]
         IN  /\ e.pos = IF e.dir = 1 THEN right_boundary(e.cell, nc)
                        ELSE left_boundary(e.cell, nc)
             /\ e.c = e.cell + e.dir

\* --------------------------------------------------------------- C9
\* C9: when the walk of component k ends, every point has made exactly
\* |cm - get_cell(x)| steps, step h in the cell, to the boundary and in the
\* direction of hop h of the trace (the direction being also the sign of the
\* velocity derivative_thit_theta sees), get_cell(xm) = cm, and a point that
\* starts in cm keeps xm = x and the accumulator 0.
C9_WalkReplaysTrace ==
  pc = "combine" =>
    \A j \in Flat :
      LET c0 == get_cell(x[j], nc)
      IN  /\ Len(walklog[j]) = Abs(cm[j] - c0)
          /\ Len(walklog[j]) <= Len(hoplog[j])
          /\ \A h \in 1..Len(walklog[j]) :
               LET w == walklog[j][h]
                   e == hoplog[j][h]
               IN  /\ w.cell = e.cell /\ w.pos = e.pos /\ w.dir = e.dir
                   /\ w.dcell = w.cell /\ w.dpos = w.pos /\ w.ddir = w.dir
          /\ get_cell(xm[j], nc) = cm[j]
          /\ c0 = cm[j] => (xm[j] = x[j] /\ cum[j] = QZero)

\* -------------------------------------------------------------- C10
RECURSIVE sum_thit(_, _)
sum_thit(log, h) == IF h = 0 THEN QZero ELSE QAdd(sum_thit(log, h - 1), log[h].thit)

\* C10: 0 <= t <= 1 for every active point at the start of every iteration, every
\* hop subtracts a hit time thit with 0 <= thit <= t, and the time the trace
\* records is 1 minus the hit times of the hops the point made.
C10_RemainingTime ==
  /\ in_loop =>
       /\ \A i \in 1..Len(t) : QLe(QZero, t[i]) /\ QLe(t[i], QOne)
       /\ \A j \in Flat : \A h \in 1..Len(hoplog[j]) :
            /\ QLe(QZero, hoplog[j][h].thit)
            /\ QLe(QZero, hoplog[j][h].t)
  /\ (trace_out.status = "returned") =>
       \A j \in Flat :
          trace_out.value[j][2]
            = QSub(QOne, sum_thit(hoplog[j], Len(hoplog[j])))
=============================================================================
